---- MODULE Spec2Model ----
(***************************************************************************)
(* The resize/redraw loop of src/main.rs: the closure handed to            *)
(* event_loop.run (lines 224-301) together with the state it captures      *)
(* (lines 130-145, 209-222) and window_size_dependent_setup (304-326).     *)
(*                                                                         *)
(* The closure runs on one thread; one invocation is modelled as the       *)
(* sequence of its statements, with pc naming the statement the thread is  *)
(* at.  While pc # "idle" no other event is delivered.  The answers of the *)
(* presentation engine and of the device (recreate, acquire, execute,      *)
(* flush, wait) are chosen nondeterministically among the variants the     *)
(* code matches on.                                                        *)
(***************************************************************************)
EXTENDS Integers, Sequences, FiniteSets, TLC

\* ------------------------------------------------------------------ bounds
\* Largest swapchain generation built (the initial swapchain is generation 0).
MaxGen == 2
\* Largest number of images the presentation engine hands out per swapchain.
MaxImages == 2
\* Largest number of lines written to standard output.
MaxLog == 1

\* Inner sizes the window takes; <<0, 0>> is the minimized window.
WindowSizes == { <<0, 0>>, <<400, 300>>, <<800, 600>> }
\* FlushError variants other than OutOfDate that the flush can report.
OtherFlushErrors == { "DeviceLost" }

\* Option<T>: None is the empty sequence, Some(x) is <<x>>.
None == << >>
Some(x) == << x >>

VARIABLES
    window_size,         \* surface.window().inner_size()
    swapchain,           \* the swapchain currently held, with its images
    framebuffers,        \* Vec<Arc<dyn FramebufferAbstract>>
    dynamic_state,       \* DynamicState
    recreate_swapchain,  \* bool
    previous_frame_end,  \* Option<Box<dyn GpuFuture>>
    control_flow,        \* *control_flow of the event loop
    event,               \* the event the closure was last called with
    pc,                  \* statement of the closure the thread is at
    panic,               \* the call whose failure ended the program, if any
    recreate_result,     \* local: variant returned by recreate_with_dimensions
    acquire_result,      \* local: variant returned by acquire_next_image
    image_num,           \* local: Option<usize>, index returned by acquire
    suboptimal,          \* local: bool returned by acquire
    command_buffer,      \* local: Option<command buffer>
    future,              \* local: Option<Result<fence future, FlushError>>
    queue_ops,           \* operations handed to the queue in this iteration
    stdout               \* lines written by println!

vars == << window_size, swapchain, framebuffers, dynamic_state,
           recreate_swapchain, previous_frame_end, control_flow, event, pc,
           panic, recreate_result, acquire_result, image_num, suboptimal,
           command_buffer, future, queue_ops, stdout >>

captured == << swapchain, framebuffers, dynamic_state, recreate_swapchain,
               previous_frame_end >>

locals == << recreate_result, acquire_result, image_num, suboptimal,
             command_buffer, future, queue_ops >>

\* ------------------------------------------------------------ pure helpers

\* "n as f32": an f32 has a 24-bit significand; larger integers are rounded
\* to the nearest representable value, ties to even.
RECURSIVE F32Step(_, _)
F32Step(n, s) == IF n \div s < 16777216 THEN s ELSE F32Step(n, 2 * s)

AsF32(n) ==
    LET s == F32Step(n, 1)
        q == n \div s
        r == n % s
    IN  IF 2 * r < s THEN q * s
        ELSE IF 2 * r > s THEN (q + 1) * s
        ELSE IF q % 2 = 0 THEN q * s ELSE (q + 1) * s

\* The images a swapchain of generation gen with n images of size dim owns.
SwapchainImages(gen, dim, n) ==
    [ i \in 1..n |-> [ swapchain |-> gen, index |-> i - 1, dimensions |-> dim ] ]

\* Swapchain::new / recreate_with_dimensions on success: (swapchain, images).
NewSwapchain(gen, dim, n) ==
    [ gen |-> gen, dimensions |-> dim, images |-> SwapchainImages(gen, dim, n) ]

\* sync::now(device): a future that is complete from the start.
Now == [ kind |-> "now", waited |-> FALSE ]
\* The future returned by then_signal_fence_and_flush, after wait() or not.
FenceFuture(w) == [ kind |-> "fence", waited |-> w ]
\* Nothing of the token is still pending on the device.
Completed(t) == t.kind = "now" \/ t.waited

\* Mutant of Viewport: width and height are taken in the wrong order.
Viewport_Swapped(dimensions) ==
    [ origin |-> << 0, 0 >>,
      dimensions |-> << AsF32(dimensions[2]), AsF32(dimensions[1]) >>,
      depth_range |-> << 0, 1 >> ]

\* Viewport { origin, dimensions, depth_range } of lines 311-315.
Viewport(dimensions) ==
    [ origin |-> << 0, 0 >>,
      dimensions |-> << AsF32(dimensions[1]), AsF32(dimensions[2]) >>,
      depth_range |-> << 0, 1 >> ]

\* Framebuffer::start(render_pass).add(image).build() of lines 320-324.
Framebuffer(image) == [ render_pass |-> "render_pass", image |-> image ]

\* window_size_dependent_setup: the new framebuffers and the dynamic state
\* as it leaves it.  images[0] of the source is images[1] here.
window_size_dependent_setup(images, ds) ==
    [ framebuffers |-> [ i \in 1..Len(images) |-> Framebuffer(images[i]) ],
      dynamic_state |->
          [ ds EXCEPT !.viewports =
                Some(<< Viewport(images[1].dimensions) >>) ] ]

\* DynamicState of lines 209-216.
InitialDynamicState ==
    [ line_width |-> None, viewports |-> None, scissors |-> None,
      compare_mask |-> None, write_mask |-> None, reference |-> None ]

\* -------------------------------------------------------------------- Init
\* State when event_loop.run is entered (line 224).  Swapchain::new is
\* followed by expect, so the run only gets here with a swapchain built for
\* a window size the surface supports.
Init ==
    /\ window_size \in WindowSizes \ { << 0, 0 >> }
    /\ \E n \in 1..MaxImages :
          /\ swapchain = NewSwapchain(0, window_size, n)
          /\ LET r == window_size_dependent_setup(swapchain.images,
                                                  InitialDynamicState)
             IN  /\ framebuffers = r.framebuffers
                 /\ dynamic_state = r.dynamic_state
    /\ recreate_swapchain = FALSE
    /\ previous_frame_end = Some(Now)
    /\ control_flow = "Poll"
    /\ event = "NewEvents"
    /\ pc = "idle"
    /\ panic = "none"
    /\ recreate_result = "none"
    /\ acquire_result = "none"
    /\ image_num = None
    /\ suboptimal = FALSE
    /\ command_buffer = None
    /\ future = None
    /\ queue_ops = << >>
    /\ stdout = << >>

\* ------------------------------------------------------------ window events
\* Mutant of CloseRequested: the arm leaves control_flow as it is.
CloseRequested_NoExit ==
    /\ pc = "idle"
    /\ event' = "CloseRequested"
    /\ control_flow' = "Poll"
    /\ UNCHANGED << window_size, captured, pc, panic, locals, stdout >>

\* Line 226.
CloseRequested ==
    /\ pc = "idle"
    /\ event' = "CloseRequested"
    /\ control_flow' = "Exit"
    /\ UNCHANGED << window_size, captured, pc, panic, locals, stdout >>

\* Mutant of Resized: the arm rebuilds the swapchain at once instead of
\* setting the flag.
Resized_RebuildsAtOnce ==
    /\ pc = "idle"
    /\ \E d \in WindowSizes :
          /\ window_size' = d
          /\ IF d[1] > 0 /\ d[2] > 0 /\ swapchain.gen < MaxGen
               THEN LET new == NewSwapchain(swapchain.gen + 1, d,
                                            Len(swapchain.images))
                        r == window_size_dependent_setup(new.images,
                                                         dynamic_state)
                    IN  /\ swapchain' = new
                        /\ framebuffers' = r.framebuffers
                        /\ dynamic_state' = r.dynamic_state
                        /\ UNCHANGED recreate_swapchain
               ELSE /\ recreate_swapchain' = TRUE
                    /\ UNCHANGED << swapchain, framebuffers, dynamic_state >>
    /\ event' = "Resized"
    /\ UNCHANGED << previous_frame_end, control_flow, pc, panic, locals,
                    stdout >>

\* Line 227; the window has taken its new inner size when the event arrives.
Resized ==
    /\ pc = "idle"
    /\ \E d \in WindowSizes : window_size' = d
    /\ event' = "Resized"
    /\ recreate_swapchain' = TRUE
    /\ UNCHANGED << swapchain, framebuffers, dynamic_state,
                    previous_frame_end, control_flow, pc, panic, locals, stdout >>

\* Line 299: every other event.
OtherEvent ==
    /\ pc = "idle"
    /\ \E e \in { "NewEvents", "MainEventsCleared" } : event' = e
    /\ UNCHANGED << window_size, captured, control_flow, pc, panic, locals,
                    stdout >>

\* The event loop stops once control_flow is Exit; run() never returns.
LoopDestroyed ==
    /\ pc = "idle"
    /\ control_flow = "Exit"
    /\ pc' = "exited"
    /\ event' = "LoopDestroyed"
    /\ UNCHANGED << window_size, captured, control_flow, panic, locals,
                    stdout >>

\* ------------------------------------------------- futures (lines 278-282)
\* A future is the sequence of operations it stands for, in the order the
\* queue performs them: every method of the chain appends what happens after
\* all that the receiver stands for.
QueueOp(op, q, sc, image) ==
    [ op |-> op, queue |-> q, swapchain |-> sc, image |-> image ]

\* previous_frame_end.join(acquire_future): both must be satisfied.  The
\* acquire future is that of image `image` of swapchain sc.
Join(sc, image) ==
    << QueueOp("await_previous_frame_end", "none", -1, -1),
       QueueOp("await_acquire", "none", sc.gen, image) >>

\* .then_execute(queue.clone(), command_buffer): the command buffer draws
\* into the image its framebuffer was built from.
ThenExecute(f, q, cb) ==
    Append(f, QueueOp("execute", q, cb.framebuffer.image.swapchain,
                      cb.framebuffer.image.index))

\* .then_swapchain_present(queue.clone(), swapchain.clone(), image_num)
ThenSwapchainPresent(f, q, sc, image) ==
    Append(f, QueueOp("present", q, sc.gen, image))

\* .then_signal_fence_and_flush()
ThenSignalFence(f) == Append(f, QueueOp("signal_fence", "none", -1, -1))

\* Mutant of FrameChain: the present request is chained before the execution.
FrameChain_PresentFirst ==
    ThenSignalFence(
        ThenExecute(
            ThenSwapchainPresent(Join(swapchain, image_num[1]), "queue",
                                 swapchain, image_num[1]),
            "queue", command_buffer[1]))

\* The whole chain of lines 278-282 for the frame being submitted.
FrameChain ==
    ThenSignalFence(
        ThenSwapchainPresent(
            ThenExecute(Join(swapchain, image_num[1]), "queue",
                        command_buffer[1]),
            "queue", swapchain, image_num[1]))

\* --------------------------------------- Event::RedrawEventsCleared (228-298)
\* The program ends in a panic raised by the named call.
Panic(site) ==
    /\ pc' = "panicked"
    /\ panic' = site

\* Lines 228-229: the arm is entered, previous_frame_end.as_mut().unwrap()
\* .cleanup_finished().  The token held is a no-op or a fence that has been
\* waited on, so cleanup_finished releases nothing the model tracks.
RedrawEventsCleared ==
    /\ pc = "idle"
    /\ event' = "RedrawEventsCleared"
    /\ recreate_result' = "none"
    /\ acquire_result' = "none"
    /\ image_num' = None
    /\ suboptimal' = FALSE
    /\ command_buffer' = None
    /\ future' = None
    /\ queue_ops' = << >>
    /\ IF previous_frame_end = None
         THEN Panic("previous_frame_end.unwrap")
         ELSE pc' = "recreate" /\ UNCHANGED panic
    /\ UNCHANGED << window_size, captured, control_flow, stdout >>

\* Line 231, recreate_swapchain false: the block is skipped.
NoRecreate ==
    /\ pc = "recreate"
    /\ ~recreate_swapchain
    /\ pc' = "acquire"
    /\ UNCHANGED << window_size, captured, control_flow, event, panic, locals,
                    stdout >>

\* Mutant of RecreateOk: the new swapchain is taken but the framebuffers
\* returned by window_size_dependent_setup are not assigned.
RecreateOk_KeepsFramebuffers ==
    /\ pc = "recreate"
    /\ recreate_swapchain
    /\ window_size[1] > 0 /\ window_size[2] > 0
    /\ swapchain.gen < MaxGen
    /\ \E n \in 1..MaxImages :
          LET new == NewSwapchain(swapchain.gen + 1, window_size, n)
              r == window_size_dependent_setup(new.images, dynamic_state)
          IN  /\ swapchain' = new
              /\ dynamic_state' = r.dynamic_state
    /\ recreate_swapchain' = FALSE
    /\ recreate_result' = "Ok"
    /\ pc' = "acquire"
    /\ UNCHANGED << window_size, framebuffers, previous_frame_end,
                    control_flow, event, panic, acquire_result, image_num,
                    suboptimal, command_buffer, future, queue_ops, stdout >>

\* Mutant of RecreateOk: the framebuffers are rebuilt from the new images but
\* the new swapchain is not assigned, so acquire keeps using the old one.
RecreateOk_KeepsSwapchain ==
    /\ pc = "recreate"
    /\ recreate_swapchain
    /\ window_size[1] > 0 /\ window_size[2] > 0
    /\ swapchain.gen < MaxGen
    /\ \E n \in 1..MaxImages :
          LET new == NewSwapchain(swapchain.gen + 1, window_size, n)
              r == window_size_dependent_setup(new.images, dynamic_state)
          IN  /\ framebuffers' = r.framebuffers
              /\ dynamic_state' = r.dynamic_state
    /\ recreate_swapchain' = FALSE
    /\ recreate_result' = "Ok"
    /\ pc' = "acquire"
    /\ UNCHANGED << window_size, swapchain, previous_frame_end, control_flow,
                    event, panic, acquire_result, image_num, suboptimal,
                    command_buffer, future, queue_ops, stdout >>

\* Lines 232-241, recreate_with_dimensions returns Ok: the presentation
\* engine builds images of the size asked for, as many as it chooses.
RecreateOk ==
    /\ pc = "recreate"
    /\ recreate_swapchain
    /\ window_size[1] > 0 /\ window_size[2] > 0
    /\ swapchain.gen < MaxGen
    /\ \E n \in 1..MaxImages :
          LET new == NewSwapchain(swapchain.gen + 1, window_size, n)
              r == window_size_dependent_setup(new.images, dynamic_state)
          IN  /\ swapchain' = new
              /\ framebuffers' = r.framebuffers
              /\ dynamic_state' = r.dynamic_state
    /\ recreate_swapchain' = FALSE
    /\ recreate_result' = "Ok"
    /\ pc' = "acquire"
    /\ UNCHANGED << window_size, previous_frame_end, control_flow, event,
                    panic, acquire_result, image_num, suboptimal,
                    command_buffer, future, queue_ops, stdout >>

\* Mutant of RecreateUnsupportedDimensions: the arm lacks its return and the
\* iteration goes on to acquire from the old swapchain.
RecreateUnsupportedDimensions_NoReturn ==
    /\ pc = "recreate"
    /\ recreate_swapchain
    /\ recreate_result' = "UnsupportedDimensions"
    /\ pc' = "acquire"
    /\ UNCHANGED << window_size, captured, control_flow, event, panic,
                    acquire_result, image_num, suboptimal, command_buffer,
                    future, queue_ops, stdout >>

\* Mutant of RecreateUnsupportedDimensions: the arm clears the flag before
\* it returns, so the rebuild is not tried again.
RecreateUnsupportedDimensions_ClearsFlag ==
    /\ pc = "recreate"
    /\ recreate_swapchain
    /\ recreate_result' = "UnsupportedDimensions"
    /\ recreate_swapchain' = FALSE
    /\ pc' = "idle"
    /\ UNCHANGED << window_size, swapchain, framebuffers, dynamic_state,
                    previous_frame_end, control_flow, event, panic,
                    acquire_result, image_num, suboptimal, command_buffer,
                    future, queue_ops, stdout >>

\* Line 235: Err(SwapchainCreationError::UnsupportedDimensions) => return.
RecreateUnsupportedDimensions ==
    /\ pc = "recreate"
    /\ recreate_swapchain
    /\ recreate_result' = "UnsupportedDimensions"
    /\ pc' = "idle"
    /\ UNCHANGED << window_size, captured, control_flow, event, panic,
                    acquire_result, image_num, suboptimal, command_buffer,
                    future, queue_ops, stdout >>

\* Line 236: any other error of recreate_with_dimensions panics.
RecreateErr ==
    /\ pc = "recreate"
    /\ recreate_swapchain
    /\ recreate_result' = "Err"
    /\ Panic("recreate_with_dimensions")
    /\ UNCHANGED << window_size, captured, control_flow, event,
                    acquire_result, image_num, suboptimal, command_buffer,
                    future, queue_ops, stdout >>

\* Mutant of AcquireOk: the suboptimal flag is ignored.
AcquireOk_IgnoresSuboptimal ==
    /\ pc = "acquire"
    /\ \E i \in 0..(Len(swapchain.images) - 1), s \in BOOLEAN :
          /\ image_num' = Some(i)
          /\ suboptimal' = s
    /\ acquire_result' = "Ok"
    /\ pc' = "record"
    /\ UNCHANGED << window_size, captured, control_flow, event, panic,
                    recreate_result, command_buffer, future, queue_ops,
                    stdout >>

\* Lines 244-245 and 253-255: acquire_next_image returns Ok with an index
\* into the images of the swapchain and the suboptimal flag.
AcquireOk ==
    /\ pc = "acquire"
    /\ \E i \in 0..(Len(swapchain.images) - 1), s \in BOOLEAN :
          /\ image_num' = Some(i)
          /\ suboptimal' = s
          /\ recreate_swapchain' = IF s THEN TRUE ELSE recreate_swapchain
    /\ acquire_result' = "Ok"
    /\ pc' = "record"
    /\ UNCHANGED << window_size, swapchain, framebuffers, dynamic_state,
                    previous_frame_end, control_flow, event, panic,
                    recreate_result, command_buffer, future, queue_ops,
                    stdout >>

\* Mutant of AcquireOutOfDate: the arm lacks its return and goes on to
\* record a frame for image 0.
AcquireOutOfDate_NoReturn ==
    /\ pc = "acquire"
    /\ acquire_result' = "OutOfDate"
    /\ recreate_swapchain' = TRUE
    /\ image_num' = Some(0)
    /\ pc' = "record"
    /\ UNCHANGED << window_size, swapchain, framebuffers, dynamic_state,
                    previous_frame_end, control_flow, event, panic,
                    recreate_result, suboptimal, command_buffer, future,
                    queue_ops, stdout >>

\* Lines 246-249: Err(AcquireError::OutOfDate).
AcquireOutOfDate ==
    /\ pc = "acquire"
    /\ acquire_result' = "OutOfDate"
    /\ recreate_swapchain' = TRUE
    /\ pc' = "idle"
    /\ UNCHANGED << window_size, swapchain, framebuffers, dynamic_state,
                    previous_frame_end, control_flow, event, panic,
                    recreate_result, image_num, suboptimal, command_buffer,
                    future, queue_ops, stdout >>

\* Line 250: any other error of acquire_next_image panics.
AcquireErr ==
    /\ pc = "acquire"
    /\ acquire_result' = "Err"
    /\ Panic("acquire_next_image")
    /\ UNCHANGED << window_size, captured, control_flow, event,
                    recreate_result, image_num, suboptimal, command_buffer,
                    future, queue_ops, stdout >>

\* Lines 257-276: the command buffer for framebuffers[image_num].
RecordCommandBuffer ==
    /\ pc = "record"
    /\ image_num[1] + 1 \in DOMAIN framebuffers
    /\ command_buffer' =
          Some([ framebuffer |-> framebuffers[image_num[1] + 1],
                 clear_values |-> << << 1, 1, 1, 1 >> >>,
                 dynamic_state |-> dynamic_state ])
    /\ pc' = "submit"
    /\ UNCHANGED << window_size, captured, control_flow, event, panic,
                    recreate_result, acquire_result, image_num, suboptimal,
                    future, queue_ops, stdout >>

\* Lines 258-276: framebuffers[image_num] out of range, or one of the
\* unwraps of the builder fails.
RecordErr ==
    /\ pc = "record"
    /\ IF image_num[1] + 1 \in DOMAIN framebuffers
         THEN Panic("AutoCommandBufferBuilder")
         ELSE Panic("framebuffers[image_num]")
    /\ UNCHANGED << window_size, captured, control_flow, event, locals,
                    stdout >>

\* Lines 278-282 with then_execute returning Ok: the token is taken out of
\* previous_frame_end, the chain is built and flushed to the queue; the
\* flush returns the fence future or a FlushError, and the chain is consumed
\* either way.
SubmitFrame ==
    /\ pc = "submit"
    /\ previous_frame_end # None
    /\ previous_frame_end' = None
    /\ queue_ops' = FrameChain
    /\ \E r \in { "Ok", "OutOfDate" } \cup OtherFlushErrors :
          /\ r \in OtherFlushErrors => Len(stdout) < MaxLog
          /\ future' = Some([ result |-> r,
                              fence |-> IF r = "Ok"
                                          THEN Some(FenceFuture(FALSE))
                                          ELSE None ])
    /\ pc' = "match_future"
    /\ UNCHANGED << window_size, swapchain, framebuffers, dynamic_state,
                    recreate_swapchain, control_flow, event, panic,
                    recreate_result, acquire_result, image_num, suboptimal,
                    command_buffer, stdout >>

\* Lines 278-280: previous_frame_end.take().unwrap() on an empty token, or
\* then_execute(..).unwrap() on an error of the command buffer's execution.
SubmitErr ==
    /\ pc = "submit"
    /\ previous_frame_end' = None
    /\ IF previous_frame_end = None
         THEN Panic("previous_frame_end.take.unwrap")
         ELSE Panic("then_execute")
    /\ UNCHANGED << window_size, swapchain, framebuffers, dynamic_state,
                    recreate_swapchain, control_flow, event, locals, stdout >>

\* Mutant of FutureOk: the fence becomes the token without being waited on.
FutureOk_NoWait ==
    /\ pc = "match_future"
    /\ future[1].result = "Ok"
    /\ previous_frame_end' = Some(FenceFuture(FALSE))
    /\ future' = Some([ future[1] EXCEPT !.fence = None ])
    /\ pc' = "idle"
    /\ UNCHANGED << window_size, swapchain, framebuffers, dynamic_state,
                    recreate_swapchain, control_flow, event, panic,
                    recreate_result, acquire_result, image_num, suboptimal,
                    command_buffer, queue_ops, stdout >>

\* Lines 285-288 with wait returning Ok: the fence is waited on and becomes
\* the token.
FutureOk ==
    /\ pc = "match_future"
    /\ future[1].result = "Ok"
    /\ previous_frame_end' = Some(FenceFuture(TRUE))
    /\ future' = Some([ future[1] EXCEPT !.fence = None ])
    /\ pc' = "idle"
    /\ UNCHANGED << window_size, swapchain, framebuffers, dynamic_state,
                    recreate_swapchain, control_flow, event, panic,
                    recreate_result, acquire_result, image_num, suboptimal,
                    command_buffer, queue_ops, stdout >>

\* Line 286: future.wait(None).unwrap() on an error of the wait.
FutureWaitErr ==
    /\ pc = "match_future"
    /\ future[1].result = "Ok"
    /\ Panic("future.wait")
    /\ UNCHANGED << window_size, captured, control_flow, event, locals,
                    stdout >>

\* Mutant of FutureOutOfDate: the arm forgets to schedule the rebuild.
FutureOutOfDate_NoRebuild ==
    /\ pc = "match_future"
    /\ future[1].result = "OutOfDate"
    /\ previous_frame_end' = Some(Now)
    /\ pc' = "idle"
    /\ UNCHANGED << window_size, swapchain, framebuffers, dynamic_state,
                    recreate_swapchain, control_flow, event, panic, locals,
                    stdout >>

\* Mutant of FutureOutOfDate: the rebuild is scheduled but the token taken at
\* line 278 is not replaced.
FutureOutOfDate_NoReset ==
    /\ pc = "match_future"
    /\ future[1].result = "OutOfDate"
    /\ recreate_swapchain' = TRUE
    /\ pc' = "idle"
    /\ UNCHANGED << window_size, swapchain, framebuffers, dynamic_state,
                    previous_frame_end, control_flow, event, panic, locals,
                    stdout >>

\* Lines 289-292: Err(FlushError::OutOfDate).
FutureOutOfDate ==
    /\ pc = "match_future"
    /\ future[1].result = "OutOfDate"
    /\ recreate_swapchain' = TRUE
    /\ previous_frame_end' = Some(Now)
    /\ pc' = "idle"
    /\ UNCHANGED << window_size, swapchain, framebuffers, dynamic_state,
                    control_flow, event, panic, locals, stdout >>

\* Mutant of FutureErr: the error is printed but the token taken at line 278
\* is not replaced.
FutureErr_NoReset ==
    /\ pc = "match_future"
    /\ future[1].result \in OtherFlushErrors
    /\ stdout' = Append(stdout, future[1].result)
    /\ pc' = "idle"
    /\ UNCHANGED << window_size, captured, control_flow, event, panic,
                    locals >>

\* Lines 293-296: any other FlushError is printed.
FutureErr ==
    /\ pc = "match_future"
    /\ future[1].result \in OtherFlushErrors
    /\ stdout' = Append(stdout, future[1].result)
    /\ previous_frame_end' = Some(Now)
    /\ pc' = "idle"
    /\ UNCHANGED << window_size, swapchain, framebuffers, dynamic_state,
                    recreate_swapchain, control_flow, event, panic, locals >>

Next ==
    \/ CloseRequested
    \/ Resized
    \/ OtherEvent
    \/ LoopDestroyed
    \/ RedrawEventsCleared
    \/ NoRecreate
    \/ RecreateOk
    \/ RecreateUnsupportedDimensions
    \/ RecreateErr
    \/ AcquireOk
    \/ AcquireOutOfDate
    \/ AcquireErr
    \/ RecordCommandBuffer
    \/ RecordErr
    \/ SubmitFrame
    \/ SubmitErr
    \/ FutureOk
    \/ FutureWaitErr
    \/ FutureOutOfDate
    \/ FutureErr

Spec == Init /\ [][Next]_vars

\* ================================================================== claims
\* The closure has returned and the event loop has not been torn down, or it
\* has been torn down after a close request: the program did not panic.
Returned == pc \in { "idle", "exited" } /\ panic = "none"

\* The flush of the frame of this iteration returned FlushError::OutOfDate and
\* the match on it has run.
FlushOutOfDateHandled ==
    /\ future # None
    /\ future[1].result = "OutOfDate"
    /\ pc # "match_future"

\* C1: a "swapchain out of date" error never ends the frame loop.  When
\* acquire_next_image returns AcquireError::OutOfDate, or the flush returns
\* FlushError::OutOfDate, the closure sets recreate_swapchain and returns
\* without panicking, and the next RedrawEventsCleared iteration, which the
\* event loop can deliver, begins with the flag set.
C1_OutOfDateNeverTerminates ==
    /\ []( (acquire_result = "OutOfDate" \/ FlushOutOfDateHandled)
              => /\ Returned
                 /\ recreate_swapchain
                 /\ (pc = "idle" => ENABLED RedrawEventsCleared) )
    /\ [][ ( /\ acquire_result = "OutOfDate" \/ FlushOutOfDateHandled
             /\ pc = "idle"
             /\ pc' # "idle" /\ pc' # "exited" )
           => (pc' = "recreate" /\ recreate_swapchain') ]_vars

\* C1 witness: a flush has reported OutOfDate and the closure has returned
\* with the rebuild scheduled.
C1_Witness ==
    /\ FlushOutOfDateHandled
    /\ pc = "idle"
    /\ recreate_swapchain
    /\ queue_ops # << >>

\* C5: when recreate_with_dimensions reports UnsupportedDimensions the frame
\* is skipped and the program goes on: the iteration ends with no image
\* acquired, no command buffer submitted and nothing presented, and the
\* closure has returned; any other rebuild error ends the program in a panic.
C5_UnsupportedDimensionsSkipsFrame ==
    /\ recreate_result = "UnsupportedDimensions"
          => /\ Returned
             /\ acquire_result = "none"
             /\ image_num = None
             /\ command_buffer = None
             /\ future = None
             /\ queue_ops = << >>
    /\ recreate_result = "Err"
          => /\ pc = "panicked"
             /\ panic = "recreate_with_dimensions"

\* C5 witness: a rebuild for a minimized window was refused and the closure
\* has returned.
C5_Witness ==
    /\ recreate_result = "UnsupportedDimensions"
    /\ window_size = << 0, 0 >>
    /\ pc = "idle"
    /\ recreate_swapchain

\* C9: when acquire_next_image reports OutOfDate the rest of the iteration is
\* skipped: nothing is recorded, submitted or presented, and the completion
\* token, the swapchain, the render targets and the viewport are as they
\* were; of the captured state only the rebuild flag changes.
C9_AcquireOutOfDateSkipsFrame ==
    /\ []( acquire_result = "OutOfDate"
              => /\ image_num = None
                 /\ command_buffer = None
                 /\ future = None
                 /\ queue_ops = << >> )
    /\ [][ (pc = "acquire" /\ acquire_result' = "OutOfDate")
           => /\ pc' = "idle"
              /\ recreate_swapchain'
              /\ UNCHANGED << previous_frame_end, swapchain, framebuffers,
                              dynamic_state >> ]_vars

\* C9 witness: an acquire reported OutOfDate while no rebuild was pending, and
\* the closure has returned.
C9_Witness ==
    /\ acquire_result = "OutOfDate"
    /\ recreate_result = "none"
    /\ pc = "idle"
    /\ recreate_swapchain

\* Completion tokens alive: the one held in previous_frame_end and the fence
\* future the flush returned that has not been moved into it yet.
LiveTokens ==
    Len(previous_frame_end) + (IF future = None THEN 0 ELSE Len(future[1].fence))

\* C2: one completion token is tracked, and no submission happens while the
\* token of the previously submitted frame has not been waited on.  While the
\* program runs there is never more than one token, and exactly one except
\* between a flush that failed (which consumed the token) and the match arm
\* that puts the fresh one in place; the token held is always a no-op or a
\* fence that has been waited on, in particular when a frame is submitted;
\* and an iteration whose flush succeeded returns with its own fence, waited
\* on, as the token.
C2_OneTokenWaitedBeforeSubmit ==
    /\ pc # "panicked"
          => LiveTokens =
                (IF pc = "match_future" /\ future[1].result # "Ok" THEN 0 ELSE 1)
    /\ previous_frame_end # None => Completed(previous_frame_end[1])
    /\ (pc = "submit" /\ panic = "none") => previous_frame_end # None
    /\ (Returned /\ future # None /\ future[1].result = "Ok")
          => previous_frame_end = Some(FenceFuture(TRUE))

\* C2 witness: a frame is about to be submitted while the token is the fence
\* of the frame submitted before it.
C2_Witness ==
    /\ pc = "submit"
    /\ previous_frame_end = Some(FenceFuture(TRUE))

\* C3: after startup and after every rebuild, whatever resize events came
\* before, framebuffers has as many entries as the swapchain held has images,
\* the i-th built from the i-th image.
C3_FramebufferPerImage ==
    /\ Len(framebuffers) = Len(swapchain.images)
    /\ \A i \in DOMAIN framebuffers :
          framebuffers[i].image = swapchain.images[i]

\* C3 witness: the second rebuild has just produced a swapchain of two images
\* for a window resized to 400x300.
C3_Witness ==
    /\ recreate_result = "Ok"
    /\ swapchain.gen = 2
    /\ swapchain.dimensions = << 400, 300 >>
    /\ Len(swapchain.images) = 2
    /\ Len(framebuffers) = 2

\* C4: after startup and after every rebuild the dynamic state holds exactly
\* one viewport, with origin (0,0) and the width and height of the first image
\* of the swapchain held; only a successful rebuild changes the dynamic state.
C4_ViewportMatchesFirstImage ==
    /\ []( dynamic_state.viewports =
              Some(<< [ origin |-> << 0, 0 >>,
                        dimensions |-> swapchain.images[1].dimensions,
                        depth_range |-> << 0, 1 >> ] >>) )
    /\ [][ dynamic_state' # dynamic_state
              => (pc = "recreate" /\ recreate_result' = "Ok") ]_vars

\* C4 witness: the first rebuild has just run for a window of 400x300 and the
\* viewport is 400x300.
C4_Witness ==
    /\ recreate_result = "Ok"
    /\ swapchain.gen = 1
    /\ window_size = << 400, 300 >>
    /\ dynamic_state.viewports[1][1].dimensions = << 400, 300 >>

\* C6 as stated: once CloseRequested has been handled, no RedrawEventsCleared
\* iteration acquires an image or submits a command buffer.
C6_NoFrameAfterClose ==
    (control_flow = "Exit" /\ event = "RedrawEventsCleared")
       => (image_num = None /\ queue_ops = << >>)

\* C6 amended: handling CloseRequested sets control_flow to Exit and nothing
\* the closure does afterwards changes it back, so the event loop stops; once
\* it has stopped nothing is acquired or submitted.  The closure does not look
\* at control_flow: a RedrawEventsCleared the event loop still delivers before
\* it stops is handled like any other.
C6_ExitIsFinal ==
    /\ [][ event' = "CloseRequested" => control_flow' = "Exit" ]_vars
    /\ [][ control_flow = "Exit" => control_flow' = "Exit" ]_vars
    /\ [][ pc = "exited" => UNCHANGED << captured, locals >> ]_vars
    /\ []( pc = "exited" => control_flow = "Exit" )

\* C6 witness: the window was closed after a frame had been presented, and the
\* event loop has stopped.
C6_Witness ==
    /\ pc = "exited"
    /\ control_flow = "Exit"
    /\ event = "LoopDestroyed"
    /\ queue_ops # << >>

\* The flush of the frame of this iteration returned a FlushError other than
\* OutOfDate and the match on it has run.
FlushErrHandled ==
    /\ future # None
    /\ future[1].result \in OtherFlushErrors
    /\ pc # "match_future"

\* C7 as stated: whichever step of the chain reports an error other than
\* "out of date" (then_execute, the flush of the present and the fence, the
\* wait on the fence), the program goes on.
C7_NoChainErrorTerminates ==
    panic \notin { "then_execute", "future.wait" }

\* C7 amended: every FlushError other than OutOfDate that
\* then_signal_fence_and_flush returns is printed and replaces the completion
\* token with a fresh no-op token, the closure returns and the loop goes on
\* with the rebuild flag as it was; an error of then_execute or of the wait on
\* the fence is unwrapped and ends the program.
C7_FlushErrorLoggedAndReset ==
    /\ []( FlushErrHandled
              => /\ Returned
                 /\ previous_frame_end = Some(Now)
                 /\ stdout # << >>
                 /\ stdout[Len(stdout)] = future[1].result
                 /\ (pc = "idle" => ENABLED RedrawEventsCleared) )
    /\ [][ (pc = "match_future" /\ future[1].result \in OtherFlushErrors)
              => /\ pc' = "idle"
                 /\ stdout' = Append(stdout, future[1].result)
                 /\ UNCHANGED << recreate_swapchain, swapchain, framebuffers,
                                 dynamic_state >> ]_vars
    /\ []( panic \in { "then_execute", "future.wait" } => pc = "panicked" )

\* C7 witness: a flush reported DeviceLost, it was printed and the closure has
\* returned with a no-op token.
C7_Witness ==
    /\ FlushErrHandled
    /\ pc = "idle"
    /\ stdout = << "DeviceLost" >>
    /\ previous_frame_end = Some(Now)

\* The operations of queue_ops named op.
OpsNamed(op) == { i \in DOMAIN queue_ops : queue_ops[i].op = op }
\* The place of the operation named op, which occurs once.
Pos(op) == CHOOSE i \in DOMAIN queue_ops : queue_ops[i].op = op

\* C8: when acquire_next_image succeeds and reports suboptimal, the iteration
\* goes on with the swapchain it has: it records the frame, and if it returns
\* it has submitted the frame and asked for its presentation on that
\* swapchain; the rebuild flag is set, so the next iteration reaches the
\* acquire only through a rebuild.
C8_SuboptimalDrawsThenRebuilds ==
    /\ []( suboptimal
              => /\ recreate_swapchain
                 /\ acquire_result = "Ok"
                 /\ (Returned
                       => /\ OpsNamed("execute") # { }
                          /\ \E i \in OpsNamed("present") :
                                /\ queue_ops[i].swapchain = swapchain.gen
                                /\ queue_ops[i].image = image_num[1]
                          /\ OpsNamed("signal_fence") # { }) )
    /\ [][ (pc = "acquire" /\ suboptimal')
              => /\ pc' = "record"
                 /\ UNCHANGED << swapchain, framebuffers, dynamic_state >> ]_vars
    /\ [][ (suboptimal /\ pc = "idle" /\ pc' # "idle" /\ pc' # "exited")
              => (pc' = "recreate" /\ recreate_swapchain') ]_vars
    /\ [][ (pc = "recreate" /\ recreate_swapchain /\ pc' = "acquire")
              => (recreate_result' = "Ok" /\ swapchain'.gen = swapchain.gen + 1) ]_vars

\* C8 witness: a frame acquired as suboptimal on a swapchain that was not
\* rebuilt in this iteration has been presented, and the closure has returned.
C8_Witness ==
    /\ suboptimal
    /\ recreate_result = "none"
    /\ pc = "idle"
    /\ future # None /\ future[1].result = "Ok"
    /\ OpsNamed("present") # { }

\* C10: in the chain handed to the queue the command buffer executes after the
\* previous frame's token and the acquisition of the image are both satisfied,
\* the present request comes after the execution, and the fence is signalled
\* after the execution and after the present request; execution and present
\* go to the same queue, and the image presented is the one acquired and the
\* one drawn into, of the swapchain held.
C10_ChainOrder ==
    queue_ops # << >>
       => /\ \A op \in { "await_previous_frame_end", "await_acquire",
                         "execute", "present", "signal_fence" } :
                Cardinality(OpsNamed(op)) = 1
          /\ Len(queue_ops) = 5
          /\ Pos("await_previous_frame_end") < Pos("execute")
          /\ Pos("await_acquire") < Pos("execute")
          /\ Pos("execute") < Pos("present")
          /\ Pos("execute") < Pos("signal_fence")
          /\ Pos("present") < Pos("signal_fence")
          /\ queue_ops[Pos("execute")].queue = queue_ops[Pos("present")].queue
          /\ \A op \in { "await_acquire", "execute", "present" } :
                /\ queue_ops[Pos(op)].image = image_num[1]
                /\ queue_ops[Pos(op)].swapchain = swapchain.gen

\* C10 witness: the chain for image 1 of a rebuilt swapchain has been handed
\* to the queue.
C10_Witness ==
    /\ queue_ops # << >>
    /\ image_num = Some(1)
    /\ swapchain.gen = 1
    /\ pc = "match_future"

\* C11: window events other than the redraw tick change no frame-loop state.
\* A Resized event sets the rebuild flag and rebuilds nothing; a
\* CloseRequested event sets the control flow to Exit and changes nothing the
\* closure captures; every other event leaves swapchain, render targets,
\* viewport, rebuild flag, completion token and control flow as they were.
C11_WindowEventsChangeNoFrameState ==
    /\ [][ event' = "Resized"
              => /\ recreate_swapchain'
                 /\ UNCHANGED << swapchain, framebuffers, dynamic_state,
                                 previous_frame_end, control_flow, locals >> ]_vars
    /\ [][ event' = "CloseRequested"
              => /\ control_flow' = "Exit"
                 /\ UNCHANGED << captured, locals >> ]_vars
    /\ [][ event' \in { "NewEvents", "MainEventsCleared", "LoopDestroyed" }
              => UNCHANGED << captured, control_flow, locals >> ]_vars

\* C11 witness: a Resized event has been handled; the rebuild is pending and
\* the swapchain still has the size the window had before.
C11_Witness ==
    /\ event = "Resized"
    /\ pc = "idle"
    /\ recreate_swapchain
    /\ window_size = << 400, 300 >>
    /\ swapchain.dimensions = << 800, 600 >>
    /\ framebuffers[1].image.dimensions = << 800, 600 >>

\* C12: the rebuild flag, once set, is cleared only by a successful rebuild,
\* which replaces the swapchain.  An iteration that starts with the flag set
\* tries the rebuild before it acquires: it reaches the acquire only through a
\* successful rebuild, so whenever an image is being or has been acquired in
\* an iteration, no rebuild was pending at that acquire and none was refused
\* in the iteration.  On UnsupportedDimensions the flag stays set and the
\* next iteration tries the rebuild again.
C12_FlagClearedOnlyByRebuild ==
    /\ [][ (recreate_swapchain /\ ~recreate_swapchain')
              => /\ pc = "recreate"
                 /\ pc' = "acquire"
                 /\ recreate_result' = "Ok"
                 /\ swapchain'.gen = swapchain.gen + 1 ]_vars
    /\ [][ (pc = "recreate" /\ recreate_swapchain /\ pc' # "recreate")
              => \/ recreate_result' = "Ok" /\ pc' = "acquire"
                 \/ recreate_result' = "UnsupportedDimensions" /\ pc' = "idle"
                 \/ recreate_result' = "Err" /\ pc' = "panicked" ]_vars
    /\ []( pc = "acquire" => ~recreate_swapchain )
    /\ []( acquire_result # "none" => recreate_result \in { "none", "Ok" } )
    /\ []( recreate_result = "UnsupportedDimensions"
              => (recreate_swapchain /\ acquire_result = "none") )
    /\ [][ (recreate_result = "UnsupportedDimensions" /\ pc = "idle"
              /\ pc' # "idle" /\ pc' # "exited")
              => /\ pc' = "recreate"
                 /\ recreate_swapchain' ]_vars

\* C12 witness: after one successful rebuild a second one has been refused;
\* the closure has returned with the flag still set.
C12_Witness ==
    /\ recreate_result = "UnsupportedDimensions"
    /\ swapchain.gen = 1
    /\ recreate_swapchain
    /\ pc = "idle"
    /\ event = "RedrawEventsCleared"

\* C13: the render targets always belong to the swapchain held.  Swapchain
\* and framebuffers are replaced in the same step and never one without the
\* other; every framebuffer is built from an image of the generation held;
\* and the index an acquire returns selects a framebuffer that exists and was
\* built from the image of that index of the swapchain held, so
\* framebuffers[image_num] never fails and the command buffer never draws
\* into a target of an older generation.
C13_FramebuffersBelongToSwapchain ==
    /\ [][ (swapchain' # swapchain) <=> (framebuffers' # framebuffers) ]_vars
    /\ []( \A i \in DOMAIN framebuffers :
              framebuffers[i].image.swapchain = swapchain.gen )
    /\ []( image_num # None
              => /\ image_num[1] + 1 \in DOMAIN framebuffers
                 /\ framebuffers[image_num[1] + 1].image.index = image_num[1]
                 /\ framebuffers[image_num[1] + 1].image.swapchain
                       = swapchain.gen )
    /\ []( command_buffer # None
              => /\ command_buffer[1].framebuffer.image.swapchain = swapchain.gen
                 /\ command_buffer[1].framebuffer.image.index = image_num[1] )
    /\ []( panic # "framebuffers[image_num]" )

\* C13 witness: after two rebuilds a command buffer has been recorded for the
\* last image of the swapchain held.
C13_Witness ==
    /\ pc = "submit"
    /\ swapchain.gen = 2
    /\ image_num = Some(Len(framebuffers) - 1)
    /\ Len(framebuffers) = 2
    /\ command_buffer[1].framebuffer.image.swapchain = 2

\* C14: previous_frame_end holds a token whenever the closure is entered and
\* whenever it has returned, on every path (the two early returns and the
\* three outcomes of the flush), and from the entry of the redraw arm up to
\* the take() of the submission; it is empty only between that take() and the
\* match arm that refills it.  So neither unwrap on previous_frame_end ever
\* meets an empty token.
C14_TokenPresentAtHandlerBounds ==
    /\ pc \in { "idle", "exited", "recreate", "acquire", "record", "submit" }
          => /\ previous_frame_end # None
             /\ Len(previous_frame_end) = 1
    /\ (pc = "match_future" \/ panic \in { "then_execute", "future.wait" })
          => previous_frame_end = None
    /\ panic \notin { "previous_frame_end.unwrap",
                      "previous_frame_end.take.unwrap" }

\* C14 witness: an iteration has been entered after the flush of the one
\* before failed and was logged; the token it unwraps is the fresh no-op.
C14_Witness ==
    /\ pc = "recreate"
    /\ stdout # << >>
    /\ previous_frame_end = Some(Now)
    /\ recreate_swapchain
====
